---------------------------- MODULE Spec2Model ----------------------------
(***************************************************************************)
(* Model of the acquisition firmware in src/Firmware_FeatherAtmelWifi_AP:  *)
(* ctrlADC.cpp (channel scheduler, buffer indexes, ADC interrupt handler,  *)
(* gain, UDP serialisation) and ctrlTimer.cpp (timer interrupt handler,    *)
(* timer frequency).                                                       *)
(*                                                                         *)
(* Spec is the acquisition with the transmit polling; SpecGain, SpecSample,*)
(* SpecTx, SpecScan, SpecTimer, SpecFrame, SpecRound and SpecWide each     *)
(* take one concern of the program with the inputs it needs.               *)
(*                                                                         *)
(* The two interrupt handlers run to completion and do not preempt each    *)
(* other; the main context (mask ingress, transmit polling) interleaves    *)
(* with them between any two of its own steps.                             *)
(***************************************************************************)
EXTENDS Integers, Sequences, FiniteSets, TLC

(***************************************************************************)
(* Sizes, scaled down from the program's 5 inputs, 64 buffers and 16       *)
(* positions (ctrlADC.h:15-17): the code uses them only as the end of the  *)
(* input scan, the modulus of iBuffer and the wrap point of iBufferPos.    *)
(***************************************************************************)
N_ADC_INPUT == 3

N_ADC_BUFFERS == 3

N_ADC_BUFFER_POS == 2

\* iBufferTransmit's "no transmit" value
NO_TRANSMIT == 255

\* iReadInput's "no input read yet in this round" value
NO_INPUT == -1

\* ctrlTimer.h
TIMER_PRESCALER_DIV == 1024

CPU_HZ == 48000000

Inputs == 0 .. (N_ADC_INPUT - 1)

Buffers == 0 .. (N_ADC_BUFFERS - 1)

Positions == 0 .. (N_ADC_BUFFER_POS - 1)

\* The values the configuration ingress writes to ADC_EnabledInputs: the
\* bitmasks over the N_ADC_INPUT channels.
Masks == 0 .. (2 ^ N_ADC_INPUT - 1)

\* The raw readings the ADC delivers in Spec: all inputs at the reference
\* level, so that ADC_buffer keeps its initial contents and the stores are
\* followed through the history variable stored.
RawReadings == {0}

\* Every value of the uint8_t ADC_EnabledInputs
ByteMasks == 0 .. 255

\* Type tags: 'D', the default of the three argument overload, and 'T'
DataTypes == {68, 84}

\* Samples at the ends of the 12 bit range and around the byte boundaries
SamplePool == <<-2048, -257, -256, -1, 0, 1, 255, 256, 2047>>

\* The reading 0xfff, stored as -1: a cell holding it was written, the
\* cells starting at 0
FrameReadings == {2 ^ 12 - 1}

\* Mask bytes with a bit at N_ADC_INPUT, beside those over the inputs
WideMasks == Masks \cup {2 ^ N_ADC_INPUT, 2 ^ N_ADC_INPUT + 1}

\* Arguments of setTimerFrequency: the ends of 1 .. CPU_HZ / TIMER_PRESCALER_DIV
\* and rates between
Frequencies == {1, 2, 1000, CPU_HZ \div TIMER_PRESCALER_DIV}

\* Values a 16 bit register can be left with by an undefined operation
UndefinedCounts == {0, 1, 2 ^ 15, 2 ^ 16 - 1}

\* Every reading the converter delivers in its 12 bit mode
Raw12 == 0 .. (2 ^ 12 - 1)

\* Gain_in is a uint8_t
GainInputs == 0 .. 255

VARIABLES
  ADC_EnabledInputs,  \* uint8_t: enabled inputs, bit i = input i
  ADC_buffer,         \* int16_t [N_ADC_INPUT][N_ADC_BUFFERS][N_ADC_BUFFER_POS]
  iBuffer,            \* uint8_t: buffer being written
  iBufferPos,         \* int: position being written
  iBufferTransmit,    \* uint8_t: buffer to transmit, NO_TRANSMIT = none
  iReadInput,         \* int: input being read, NO_INPUT = none
  ADC_Gain,           \* uint8_t: active gain
  adcConv,            \* ADC peripheral: conversions started and not completed
  adcMux,             \* ADC peripheral: INPUTCTRL.MUXPOS, as an input index
  adcGainReg,         \* ADC peripheral: INPUTCTRL.GAIN
  gainIn,             \* last argument of ADC_setGain
  gainRet,            \* last return value of ADC_setGain
  txpc,               \* main context: "poll", "send" or "clear"
  txBuf,              \* main context: the buffer index taken from iBufferTransmit
  udpPacket,          \* the bytes ADC_UdpTransmit wrote to the last packet
  tcCount,            \* timer peripheral: TC->COUNT.reg
  tcCC,               \* timer peripheral: TC->CC[0].reg
  tcCall,             \* history: argument, COUNT and CC[0] at the call of
                      \* setTimerFrequency just made, <<>> otherwise
  oob,                \* an ADC_buffer store with an index out of range happened
  roundMask,          \* history: ADC_EnabledInputs at the last TC3_Handler
  maskChanged,        \* history: ADC_EnabledInputs was written since then
  preempted,          \* history: the last TC3_Handler flushed a conversion
  started,            \* history: inputs started since the last TC3_Handler
  stored,             \* history: cells <<input, buffer, pos>> stored since then
  nAdv,               \* history: TC3_Handler runs that updated the indexes
  txAge,              \* history: such runs since txBuf was published
  taken               \* history: the pipeline took the marker now published

vars == <<ADC_EnabledInputs, ADC_buffer, iBuffer, iBufferPos, iBufferTransmit,
          iReadInput, ADC_Gain, adcConv, adcMux, adcGainReg, gainIn, gainRet,
          txpc, txBuf, udpPacket, tcCount, tcCC, tcCall, oob, roundMask,
          maskChanged, preempted, started, stored, nAdv, txAge, taken>>

\* The packet and the timer registers, which the acquisition handlers and
\* the polling of iBufferTransmit leave alone
auxVars == <<udpPacket, tcCount, tcCC, tcCall>>

-----------------------------------------------------------------------------
(* Helpers *)

\* mask & (1 << i)
BitSet(mask, i) == (mask \div (2 ^ i)) % 2 = 1

EnabledSet(mask) == {i \in Inputs : BitSet(mask, i)}

\* the elements of a set of integers in ascending order
RECURSIVE Ascending(_)
Ascending(S) ==
  IF S = {} THEN <<>>
  ELSE LET m == CHOOSE x \in S : \A y \in S : x <= y
       IN <<m>> \o Ascending(S \ {m})

IsPrefix(s, t) == Len(s) <= Len(t) /\ SubSeq(t, 1, Len(s)) = s

\* The number of index updates after which the ring comes back to a buffer
RingPeriod == N_ADC_BUFFERS * N_ADC_BUFFER_POS

\* Index updates that may follow the publication of a buffer before the
\* ring is writing it again
TxWindow == (N_ADC_BUFFERS - 1) * N_ADC_BUFFER_POS

-----------------------------------------------------------------------------
(* ctrlADC.cpp *)

\* The for loop of ADC_StartRead from iInput on: the first enabled input,
\* or N_ADC_INPUT when the loop runs out.
RECURSIVE ScanInputs(_, _)

\* ScanInputs without the test of the enabled bit
ScanInputs_NoMaskTest(iInput, mask) ==
  IF iInput < N_ADC_INPUT THEN iInput ELSE N_ADC_INPUT

\* ScanInputs without the break: the loop ends on the last enabled input
ScanInputs_NoBreak(iInput, mask) ==
  IF \E i \in Inputs : i >= iInput /\ BitSet(mask, i)
  THEN CHOOSE i \in Inputs :
         /\ i >= iInput /\ BitSet(mask, i)
         /\ \A j \in Inputs : (j >= iInput /\ BitSet(mask, j)) => j <= i
  ELSE N_ADC_INPUT

\* ScanInputs wrapping around to input 0 when it finds nothing above
ScanInputs_Wrap(iInput, mask) ==
  IF \E i \in Inputs : i >= iInput /\ BitSet(mask, i)
  THEN CHOOSE i \in Inputs :
         /\ i >= iInput /\ BitSet(mask, i)
         /\ \A j \in Inputs : (j >= iInput /\ BitSet(mask, j)) => i <= j
  ELSE IF \E i \in Inputs : BitSet(mask, i)
       THEN CHOOSE i \in Inputs :
              BitSet(mask, i) /\ \A j \in Inputs : BitSet(mask, j) => i <= j
       ELSE N_ADC_INPUT

ScanInputs(iInput, mask) ==
  IF iInput < N_ADC_INPUT
  THEN IF BitSet(mask, iInput) THEN iInput ELSE ScanInputs(iInput + 1, mask)
  ELSE N_ADC_INPUT

\* ADC_Flush left out: the conversion in progress goes on
ADC_Flush_Keep(conv) == conv

\* SWTRIG.FLUSH = 1: the conversion in progress is lost
ADC_Flush(conv) == 0

\* SWTRIG.START = 1
ADC_Start(conv) == conv + 1

\* ADC_StartRead with the loop starting at iReadInput itself
ADC_StartRead_FromCurrent(rd, mask, conv, mux) ==
  LET iInput == ScanInputs(IF rd < 0 THEN 0 ELSE rd, mask)
  IN IF iInput < N_ADC_INPUT
     THEN [iReadInput |-> iInput, adcMux |-> iInput,
           adcConv |-> ADC_Start(ADC_Flush(conv)), start |-> TRUE]
     ELSE [iReadInput |-> rd, adcMux |-> mux, adcConv |-> conv,
           start |-> FALSE]

\* ADC_StartRead converting the current input again when it finds no
\* enabled input above it
ADC_StartRead_Repeat(rd, mask, conv, mux) ==
  LET iInput == ScanInputs(rd + 1, mask)
  IN IF iInput < N_ADC_INPUT
     THEN [iReadInput |-> iInput, adcMux |-> iInput,
           adcConv |-> ADC_Start(ADC_Flush(conv)), start |-> TRUE]
     ELSE IF rd >= 0 /\ BitSet(mask, rd)
          THEN [iReadInput |-> rd, adcMux |-> rd,
                adcConv |-> ADC_Start(ADC_Flush(conv)), start |-> TRUE]
          ELSE [iReadInput |-> rd, adcMux |-> mux, adcConv |-> conv,
                start |-> FALSE]

\* ADC_StartRead: the new iReadInput, MUXPOS and conversions in flight
ADC_StartRead(rd, mask, conv, mux) ==
  LET iInput == ScanInputs(rd + 1, mask)
  IN IF iInput < N_ADC_INPUT
     THEN [iReadInput |-> iInput, adcMux |-> iInput,
           adcConv |-> ADC_Start(ADC_Flush(conv)), start |-> TRUE]
     ELSE [iReadInput |-> rd, adcMux |-> mux, adcConv |-> conv,
           start |-> FALSE]

\* ADC_UpdateBufferIdx without the test of ADC_EnabledInputs
ADC_UpdateBufferIdx_NoGuard(mask, buf, pos, tx, rd) ==
  IF pos + 1 = N_ADC_BUFFER_POS
  THEN [iBuffer |-> ((buf + 1) % 256) % N_ADC_BUFFERS, iBufferPos |-> 0,
        iBufferTransmit |-> buf, iReadInput |-> NO_INPUT, upd |-> TRUE]
  ELSE [iBuffer |-> buf, iBufferPos |-> pos + 1,
        iBufferTransmit |-> tx, iReadInput |-> NO_INPUT, upd |-> TRUE]

\* ADC_UpdateBufferIdx comparing iBufferPos before the increment
ADC_UpdateBufferIdx_LateWrap(mask, buf, pos, tx, rd) ==
  IF mask # 0
  THEN IF pos = N_ADC_BUFFER_POS
       THEN [iBuffer |-> ((buf + 1) % 256) % N_ADC_BUFFERS, iBufferPos |-> 0,
             iBufferTransmit |-> buf, iReadInput |-> NO_INPUT, upd |-> TRUE]
       ELSE [iBuffer |-> buf, iBufferPos |-> pos + 1,
             iBufferTransmit |-> tx, iReadInput |-> NO_INPUT, upd |-> TRUE]
  ELSE [iBuffer |-> buf, iBufferPos |-> pos, iBufferTransmit |-> tx,
        iReadInput |-> rd, upd |-> FALSE]

\* ADC_UpdateBufferIdx setting iBufferTransmit after the increment of iBuffer
ADC_UpdateBufferIdx_PublishNew(mask, buf, pos, tx, rd) ==
  IF mask # 0
  THEN IF pos + 1 = N_ADC_BUFFER_POS
       THEN [iBuffer |-> ((buf + 1) % 256) % N_ADC_BUFFERS, iBufferPos |-> 0,
             iBufferTransmit |-> ((buf + 1) % 256) % N_ADC_BUFFERS,
             iReadInput |-> NO_INPUT, upd |-> TRUE]
       ELSE [iBuffer |-> buf, iBufferPos |-> pos + 1,
             iBufferTransmit |-> tx, iReadInput |-> NO_INPUT, upd |-> TRUE]
  ELSE [iBuffer |-> buf, iBufferPos |-> pos, iBufferTransmit |-> tx,
        iReadInput |-> rd, upd |-> FALSE]

\* ADC_UpdateBufferIdx without the modulo of iBuffer
ADC_UpdateBufferIdx_NoModulo(mask, buf, pos, tx, rd) ==
  IF mask # 0
  THEN IF pos + 1 = N_ADC_BUFFER_POS
       THEN [iBuffer |-> (buf + 1) % 256, iBufferPos |-> 0,
             iBufferTransmit |-> buf, iReadInput |-> NO_INPUT, upd |-> TRUE]
       ELSE [iBuffer |-> buf, iBufferPos |-> pos + 1,
             iBufferTransmit |-> tx, iReadInput |-> NO_INPUT, upd |-> TRUE]
  ELSE [iBuffer |-> buf, iBufferPos |-> pos, iBufferTransmit |-> tx,
        iReadInput |-> rd, upd |-> FALSE]

\* ADC_UpdateBufferIdx without the reset of iReadInput
ADC_UpdateBufferIdx_NoReset(mask, buf, pos, tx, rd) ==
  IF mask # 0
  THEN IF pos + 1 = N_ADC_BUFFER_POS
       THEN [iBuffer |-> ((buf + 1) % 256) % N_ADC_BUFFERS, iBufferPos |-> 0,
             iBufferTransmit |-> buf, iReadInput |-> rd, upd |-> TRUE]
       ELSE [iBuffer |-> buf, iBufferPos |-> pos + 1,
             iBufferTransmit |-> tx, iReadInput |-> rd, upd |-> TRUE]
  ELSE [iBuffer |-> buf, iBufferPos |-> pos, iBufferTransmit |-> tx,
        iReadInput |-> rd, upd |-> FALSE]

\* ADC_UpdateBufferIdx keeping a marker that was not cleared
ADC_UpdateBufferIdx_KeepUnsent(mask, buf, pos, tx, rd) ==
  IF mask # 0
  THEN IF pos + 1 = N_ADC_BUFFER_POS
       THEN [iBuffer |-> ((buf + 1) % 256) % N_ADC_BUFFERS, iBufferPos |-> 0,
             iBufferTransmit |-> IF tx = NO_TRANSMIT THEN buf ELSE tx,
             iReadInput |-> NO_INPUT, upd |-> TRUE]
       ELSE [iBuffer |-> buf, iBufferPos |-> pos + 1,
             iBufferTransmit |-> tx, iReadInput |-> NO_INPUT, upd |-> TRUE]
  ELSE [iBuffer |-> buf, iBufferPos |-> pos, iBufferTransmit |-> tx,
        iReadInput |-> rd, upd |-> FALSE]

\* ADC_UpdateBufferIdx resetting the marker between frame completions
ADC_UpdateBufferIdx_DropMarker(mask, buf, pos, tx, rd) ==
  IF mask # 0
  THEN IF pos + 1 = N_ADC_BUFFER_POS
       THEN [iBuffer |-> ((buf + 1) % 256) % N_ADC_BUFFERS, iBufferPos |-> 0,
             iBufferTransmit |-> buf, iReadInput |-> NO_INPUT, upd |-> TRUE]
       ELSE [iBuffer |-> buf, iBufferPos |-> pos + 1,
             iBufferTransmit |-> NO_TRANSMIT, iReadInput |-> NO_INPUT,
             upd |-> TRUE]
  ELSE [iBuffer |-> buf, iBufferPos |-> pos, iBufferTransmit |-> tx,
        iReadInput |-> rd, upd |-> FALSE]

\* ADC_UpdateBufferIdx: the new indexes
ADC_UpdateBufferIdx(mask, buf, pos, tx, rd) ==
  IF mask # 0
  THEN IF pos + 1 = N_ADC_BUFFER_POS
       THEN [iBuffer |-> ((buf + 1) % 256) % N_ADC_BUFFERS, iBufferPos |-> 0,
             iBufferTransmit |-> buf, iReadInput |-> NO_INPUT, upd |-> TRUE]
       ELSE [iBuffer |-> buf, iBufferPos |-> pos + 1,
             iBufferTransmit |-> tx, iReadInput |-> NO_INPUT, upd |-> TRUE]
  ELSE [iBuffer |-> buf, iBufferPos |-> pos, iBufferTransmit |-> tx,
        iReadInput |-> rd, upd |-> FALSE]

\* The conversion testing bit 12, which a 12 bit reading never has, for the
\* sign
SignExtend_WrongBit(raw) ==
  LET sample == IF (raw \div 4096) % 2 = 1
                THEN raw + 61440 - ((raw \div 4096) % 16) * 4096
                ELSE raw
  IN IF sample >= 32768 THEN sample - 65536 ELSE sample

\* The 12 bit to 16 bit two's complement conversion of ADC_Handler:
\* if (sample & 0x0800) sample |= 0xf000; then the cast to int16_t
SignExtend(raw) ==
  LET sample == IF (raw \div 2048) % 2 = 1
                THEN raw + 61440 - ((raw \div 4096) % 16) * 4096
                ELSE raw
  IN IF sample >= 32768 THEN sample - 65536 ELSE sample

\* The store of ADC_Handler filling every position of the buffer
StoreSample_AllPositions(buffer, iInput, iBuf, iPos, sample) ==
  [buffer EXCEPT ![iInput][iBuf] = [p \in Positions |-> sample]]

\* ADC_buffer[iReadInput][iBuffer][iBufferPos] = (int16_t) sample
StoreSample(buffer, iInput, iBuf, iPos, sample) ==
  [buffer EXCEPT ![iInput][iBuf][iPos] = sample]

\* (uint8_t) of a 16 bit sample: its low byte
LowByte(x) == x % 256

\* The high byte written without the shift
HighByte_NoShift(x) == x % 256

\* (uint8_t) (sample >> 8): the high byte, the shift keeping the sign
HighByte(x) == (x \div 256) % 256

\* ADC_UdpTransmit, the loop over iPos: each sample as two bytes, low first
RECURSIVE WritePositions(_, _, _, _)
WritePositions(buffer, iInput, iBuffer_in, iPos) ==
  IF iPos < N_ADC_BUFFER_POS
  THEN <<LowByte(buffer[iInput][iBuffer_in][iPos]),
         HighByte(buffer[iInput][iBuffer_in][iPos])>>
       \o WritePositions(buffer, iInput, iBuffer_in, iPos + 1)
  ELSE <<>>

\* ADC_UdpTransmit, the loop over iInput: the inputs below N_ADC_INPUT whose
\* bit is set
RECURSIVE WriteInputs(_, _, _, _)
WriteInputs(buffer, mask, iBuffer_in, iInput) ==
  IF iInput < N_ADC_INPUT
  THEN (IF BitSet(mask, iInput)
        THEN WritePositions(buffer, iInput, iBuffer_in, 0)
        ELSE <<>>)
       \o WriteInputs(buffer, mask, iBuffer_in, iInput + 1)
  ELSE <<>>

\* ADC_UdpTransmit: the bytes written between beginPacket and endPacket
ADC_UdpTransmit(buffer, mask, iBuffer_in, DataType) ==
  <<DataType % 256, iBuffer_in % 256, mask % 256>>
  \o WriteInputs(buffer, mask, iBuffer_in, 0)

\* ADC_INPUTCTRL_GAIN_<n>X_Val
GainVal(g) ==
  CASE g = 1 -> 0 [] g = 2 -> 1 [] g = 4 -> 2 [] g = 8 -> 3 [] g = 16 -> 4

\* ADC_setGain recording Gain_in before the switch
ADC_setGain_RecordFirst(Gain_in, gain, reg) ==
  IF Gain_in \in {1, 2, 4, 8, 16}
  THEN [ret |-> TRUE, ADC_Gain |-> Gain_in, adcGainReg |-> GainVal(Gain_in)]
  ELSE [ret |-> FALSE, ADC_Gain |-> Gain_in, adcGainReg |-> reg]

\* ADC_setGain: the return value, ADC_Gain and INPUTCTRL.GAIN
ADC_setGain(Gain_in, gain, reg) ==
  IF Gain_in \in {1, 2, 4, 8, 16}
  THEN [ret |-> TRUE, ADC_Gain |-> Gain_in, adcGainReg |-> GainVal(Gain_in)]
  ELSE [ret |-> FALSE, ADC_Gain |-> gain, adcGainReg |-> reg]

-----------------------------------------------------------------------------
Init ==
  /\ ADC_EnabledInputs = 0
  /\ ADC_buffer = [i \in Inputs |-> [b \in Buffers |-> [p \in Positions |-> 0]]]
  /\ iBuffer = 0
  /\ iBufferPos = 0
  /\ iBufferTransmit = NO_TRANSMIT
  /\ iReadInput = NO_INPUT
  /\ ADC_Gain = 1
  /\ adcConv = 0
  /\ adcMux = 0
  /\ adcGainReg = GainVal(1)
  /\ gainIn = 1
  /\ gainRet = TRUE
  /\ txpc = "poll"
  /\ txBuf = NO_TRANSMIT
  /\ oob = FALSE
  /\ roundMask = 0
  /\ maskChanged = FALSE
  /\ preempted = FALSE
  /\ started = <<>>
  /\ stored = <<>>
  /\ nAdv = 0
  /\ txAge = 0
  /\ taken = FALSE
  /\ udpPacket = <<>>
  /\ tcCount = 0
  /\ tcCC = 0
  /\ tcCall = <<>>

-----------------------------------------------------------------------------
(* ctrlTimer.cpp *)

\* The largest value of the 32 bit long in which map computes
LONG_MAX == 2147483647

\* a * b does not fit a long (a and b not negative)
Overflows(a, b) == b > 0 /\ a > LONG_MAX \div b

\* map rounding the quotient to the nearest integer
map_Nearest(x, in_min, in_max, out_min, out_max) ==
  IF in_max = in_min \/ Overflows(x - in_min, out_max - out_min)
  THEN UndefinedCounts
  ELSE LET n == (x - in_min) * (out_max - out_min)
           d == in_max - in_min
       IN {n \div d + (IF 2 * (n % d) >= d THEN 1 ELSE 0) + out_min}

\* map(x, in_min, in_max, out_min, out_max) of the Arduino core, for
\* arguments that are not negative:
\*   (x - in_min) * (out_max - out_min) / (in_max - in_min) + out_min
\* in long arithmetic, the division truncating. A division by zero and a
\* product beyond LONG_MAX are undefined: the set of the values it can give.
map(x, in_min, in_max, out_min, out_max) ==
  IF in_max = in_min \/ Overflows(x - in_min, out_max - out_min)
  THEN UndefinedCounts
  ELSE {((x - in_min) * (out_max - out_min)) \div (in_max - in_min) + out_min}

\* setTimerFrequency, the compare value
CompareValue(frequencyHz) ==
  (CPU_HZ \div (TIMER_PRESCALER_DIV * frequencyHz)) - 1

-----------------------------------------------------------------------------
(* The interrupt handlers *)

Min(a, b) == IF a < b THEN a ELSE b

\* ctrlTimer.cpp TC3_Handler: ADC_UpdateBufferIdx(); ADC_StartRead();
TC3_Handler ==
  LET u == ADC_UpdateBufferIdx(ADC_EnabledInputs, iBuffer, iBufferPos,
                               iBufferTransmit, iReadInput)
      s == ADC_StartRead(u.iReadInput, ADC_EnabledInputs, adcConv, adcMux)
      published == u.upd /\ u.iBufferPos = 0
  IN /\ iBuffer' = u.iBuffer
     /\ iBufferPos' = u.iBufferPos
     /\ iBufferTransmit' = u.iBufferTransmit
     /\ iReadInput' = s.iReadInput
     /\ adcMux' = s.adcMux
     /\ adcConv' = s.adcConv
     /\ roundMask' = ADC_EnabledInputs
     /\ maskChanged' = FALSE
     /\ preempted' = (s.start /\ adcConv > 0)
     /\ started' = IF s.start THEN <<s.iReadInput>> ELSE <<>>
     /\ stored' = <<>>
     /\ nAdv' = IF u.upd THEN (nAdv + 1) % RingPeriod ELSE nAdv
     /\ taken' = IF published THEN FALSE ELSE taken
     /\ txAge' = IF ~u.upd THEN txAge
                 ELSE IF txpc = "poll"
                      THEN IF published \/ u.iBufferTransmit = NO_TRANSMIT
                           THEN 0 ELSE Min(txAge + 1, TxWindow)
                      ELSE Min(txAge + 1, TxWindow)
     /\ UNCHANGED auxVars
     /\ UNCHANGED <<ADC_EnabledInputs, ADC_buffer, ADC_Gain, adcGainReg,
                    gainIn, gainRet, txpc, txBuf, oob>>

\* ctrlADC.cpp ADC_Handler, run when the conversion in flight completes with
\* the reading raw in ADC->RESULT
ADC_Handler(raw) ==
  /\ adcConv > 0
  /\ LET sample == SignExtend(raw)
         inRange == iReadInput \in Inputs /\ iBuffer \in Buffers
                    /\ iBufferPos \in Positions
         s == ADC_StartRead(iReadInput, ADC_EnabledInputs, adcConv - 1, adcMux)
     IN /\ ADC_buffer' = IF inRange
                         THEN StoreSample(ADC_buffer, iReadInput, iBuffer,
                                          iBufferPos, sample)
                         ELSE ADC_buffer
        /\ oob' = (oob \/ ~inRange)
        /\ iReadInput' = s.iReadInput
        /\ adcMux' = s.adcMux
        /\ adcConv' = s.adcConv
        /\ stored' = Append(stored, <<iReadInput, iBuffer, iBufferPos>>)
        /\ started' = IF s.start THEN Append(started, s.iReadInput) ELSE started
  /\ UNCHANGED auxVars
  /\ UNCHANGED taken
  /\ UNCHANGED <<ADC_EnabledInputs, iBuffer, iBufferPos, iBufferTransmit,
                 ADC_Gain, adcGainReg, gainIn, gainRet, txpc, txBuf,
                 roundMask, maskChanged, preempted, nAdv, txAge>>

ConversionComplete == \E raw \in RawReadings : ADC_Handler(raw)

-----------------------------------------------------------------------------
(* The main context *)

\* The configuration ingress writes ADC_EnabledInputs
SetEnabledInputs(m) ==
  /\ m # ADC_EnabledInputs
  /\ ADC_EnabledInputs' = m
  /\ maskChanged' = TRUE
  /\ UNCHANGED auxVars
  /\ UNCHANGED taken
  /\ UNCHANGED <<ADC_buffer, iBuffer, iBufferPos, iBufferTransmit, iReadInput,
                 ADC_Gain, adcConv, adcMux, adcGainReg, gainIn, gainRet, txpc,
                 txBuf, oob, roundMask, preempted, started, stored, nAdv,
                 txAge>>

MaskChange == \E m \in Masks : SetEnabledInputs(m)

\* The transmit pipeline polls iBufferTransmit and takes the buffer index
TxPoll ==
  /\ txpc = "poll"
  /\ iBufferTransmit # NO_TRANSMIT
  /\ txBuf' = iBufferTransmit
  /\ txpc' = "send"
  /\ taken' = TRUE
  /\ UNCHANGED auxVars
  /\ UNCHANGED <<ADC_EnabledInputs, ADC_buffer, iBuffer, iBufferPos,
                 iBufferTransmit, iReadInput, ADC_Gain, adcConv, adcMux,
                 adcGainReg, gainIn, gainRet, oob, roundMask, maskChanged,
                 preempted, started, stored, nAdv, txAge>>

\* The call ADC_UdpTransmit(UDP, txBuf, IP, Port): it reads buffer txBuf of
\* ADC_buffer and changes none of the globals; the bytes it writes to the
\* packet are not part of the state of Spec.
TxSend ==
  /\ txpc = "send"
  /\ txpc' = "clear"
  /\ UNCHANGED auxVars
  /\ UNCHANGED taken
  /\ UNCHANGED <<ADC_EnabledInputs, ADC_buffer, iBuffer, iBufferPos,
                 iBufferTransmit, iReadInput, ADC_Gain, adcConv, adcMux,
                 adcGainReg, gainIn, gainRet, txBuf, oob, roundMask,
                 maskChanged, preempted, started, stored, nAdv, txAge>>

\* The transmit pipeline clears iBufferTransmit
TxClear ==
  /\ txpc = "clear"
  /\ iBufferTransmit' = NO_TRANSMIT
  /\ txpc' = "poll"
  /\ txBuf' = NO_TRANSMIT
  /\ txAge' = 0
  /\ taken' = FALSE
  /\ UNCHANGED auxVars
  /\ UNCHANGED <<ADC_EnabledInputs, ADC_buffer, iBuffer, iBufferPos,
                 iReadInput, ADC_Gain, adcConv, adcMux, adcGainReg, gainIn,
                 gainRet, oob, roundMask, maskChanged, preempted, started,
                 stored, nAdv>>

\* The main context calls ADC_setGain(Gain_in)
SetGain(Gain_in) ==
  LET r == ADC_setGain(Gain_in, ADC_Gain, adcGainReg)
  IN /\ gainIn' = Gain_in
     /\ gainRet' = r.ret
     /\ ADC_Gain' = r.ADC_Gain
     /\ adcGainReg' = r.adcGainReg
     /\ UNCHANGED auxVars
     /\ UNCHANGED taken
     /\ UNCHANGED <<ADC_EnabledInputs, ADC_buffer, iBuffer, iBufferPos,
                    iBufferTransmit, iReadInput, adcConv, adcMux, txpc, txBuf,
                    oob, roundMask, maskChanged, preempted, started, stored,
                    nAdv, txAge>>

GainCall == \E g \in GainInputs : SetGain(g)

-----------------------------------------------------------------------------
Next ==
  \/ TC3_Handler
  \/ ConversionComplete
  \/ MaskChange
  \/ TxPoll
  \/ TxSend
  \/ TxClear

Spec == Init /\ [][Next]_vars

\* The gain configuration alone
NextGain == GainCall

SpecGain == Init /\ [][NextGain]_vars

-----------------------------------------------------------------------------
(* The first sample after start, with every reading of the converter *)

\* One input was enabled before the timer first fired
InitSample ==
  /\ \E i \in Inputs : ADC_EnabledInputs = 2 ^ i
  /\ ADC_buffer = [i \in Inputs |-> [b \in Buffers |-> [p \in Positions |-> 0]]]
  /\ iBuffer = 0
  /\ iBufferPos = 0
  /\ iBufferTransmit = NO_TRANSMIT
  /\ iReadInput = NO_INPUT
  /\ ADC_Gain = 1
  /\ adcConv = 0
  /\ adcMux = 0
  /\ adcGainReg = GainVal(1)
  /\ gainIn = 1
  /\ gainRet = TRUE
  /\ txpc = "poll"
  /\ txBuf = NO_TRANSMIT
  /\ oob = FALSE
  /\ roundMask = 0
  /\ maskChanged = TRUE
  /\ preempted = FALSE
  /\ started = <<>>
  /\ stored = <<>>
  /\ nAdv = 0
  /\ txAge = 0
  /\ taken = FALSE
  /\ udpPacket = <<>>
  /\ tcCount = 0
  /\ tcCC = 0
  /\ tcCall = <<>>

\* The first timer interrupt
FirstTick == roundMask = 0 /\ TC3_Handler

\* The conversion completes with any 12 bit reading
SampleComplete == \E raw \in Raw12 : ADC_Handler(raw)

NextSample == FirstTick \/ SampleComplete

SpecSample == InitSample /\ [][NextSample]_vars

-----------------------------------------------------------------------------
(* Frames filling under a constant mask, every round finishing before the   *)
(* next timer interrupt                                                      *)

\* A non-empty mask was set before the timer first fired
InitFrame ==
  /\ ADC_EnabledInputs \in Masks \ {0}
  /\ ADC_buffer = [i \in Inputs |-> [b \in Buffers |-> [p \in Positions |-> 0]]]
  /\ iBuffer = 0
  /\ iBufferPos = 0
  /\ iBufferTransmit = NO_TRANSMIT
  /\ iReadInput = NO_INPUT
  /\ ADC_Gain = 1
  /\ adcConv = 0
  /\ adcMux = 0
  /\ adcGainReg = GainVal(1)
  /\ gainIn = 1
  /\ gainRet = TRUE
  /\ txpc = "poll"
  /\ txBuf = NO_TRANSMIT
  /\ oob = FALSE
  /\ roundMask = 0
  /\ maskChanged = TRUE
  /\ preempted = FALSE
  /\ started = <<>>
  /\ stored = <<>>
  /\ nAdv = 0
  /\ txAge = 0
  /\ taken = FALSE
  /\ udpPacket = <<>>
  /\ tcCount = 0
  /\ tcCC = 0
  /\ tcCall = <<>>

\* The timer interrupt, no conversion being in flight
IdleTick == adcConv = 0 /\ TC3_Handler

FrameSample == \E raw \in FrameReadings : ADC_Handler(raw)

NextFrame == IdleTick \/ FrameSample

SpecFrame == InitFrame /\ [][NextFrame]_vars

-----------------------------------------------------------------------------
(* Rounds left to finish: the timer interrupt comes only when no conversion *)
(* is in flight, and a conversion in flight completes in the end            *)

NextRound == IdleTick \/ ConversionComplete \/ MaskChange

SpecRound ==
  Init /\ [][NextRound]_vars /\ WF_vars(ConversionComplete)

-----------------------------------------------------------------------------
(* The acquisition with mask bytes that have a bit at N_ADC_INPUT *)

WideMaskChange == \E m \in WideMasks : SetEnabledInputs(m)

\* The handlers and the ingress, up to the first store outside ADC_buffer:
\* what that store overwrites is not determined
NextWide ==
  \/ oob = FALSE /\ TC3_Handler
  \/ oob = FALSE /\ ConversionComplete
  \/ oob = FALSE /\ WideMaskChange

SpecWide == Init /\ [][NextWide]_vars

-----------------------------------------------------------------------------
(* The sample timer: its counter and the changes of its frequency *)

\* ctrlTimer.cpp setTimerFrequency
setTimerFrequency(frequencyHz) ==
  /\ \E c \in map(tcCount, 0, tcCC, 0, CompareValue(frequencyHz)) :
       tcCount' = c % (2 ^ 16)
  /\ tcCC' = CompareValue(frequencyHz) % (2 ^ 16)
  /\ tcCall' = [hz |-> frequencyHz, count |-> tcCount, cc |-> tcCC]
  /\ UNCHANGED <<ADC_EnabledInputs, ADC_buffer, iBuffer, iBufferPos,
                 iBufferTransmit, iReadInput, ADC_Gain, adcConv, adcMux,
                 adcGainReg, gainIn, gainRet, txpc, txBuf, udpPacket, oob,
                 roundMask, maskChanged, preempted, started, stored, nAdv,
                 txAge, taken>>

FrequencyChange == \E hz \in Frequencies : setTimerFrequency(hz)

\* The counter in match frequency mode (TC_CTRLA_WAVEGEN_MFRQ): it counts
\* up and resets when it matches CC[0]
TimerCount ==
  /\ tcCall # <<>> \/ tcCC # 0
  /\ tcCount' = IF tcCount = tcCC THEN 0 ELSE (tcCount + 1) % (2 ^ 16)
  /\ tcCall' = <<>>
  /\ UNCHANGED <<ADC_EnabledInputs, ADC_buffer, iBuffer, iBufferPos,
                 iBufferTransmit, iReadInput, ADC_Gain, adcConv, adcMux,
                 adcGainReg, gainIn, gainRet, txpc, txBuf, udpPacket, tcCC,
                 oob, roundMask, maskChanged, preempted, started, stored,
                 nAdv, txAge, taken>>

NextTimer == FrequencyChange \/ TimerCount

SpecTimer == Init /\ [][NextTimer]_vars

-----------------------------------------------------------------------------
(* The scan of ADC_StartRead, from every iReadInput and every mask byte *)

InitScan ==
  /\ ADC_EnabledInputs \in ByteMasks
  /\ iReadInput \in {NO_INPUT} \cup Inputs
  /\ adcConv \in IF iReadInput = NO_INPUT THEN {0} ELSE {0, 1}
  /\ adcMux = IF iReadInput = NO_INPUT THEN 0 ELSE iReadInput
  /\ ADC_buffer = [i \in Inputs |-> [b \in Buffers |-> [p \in Positions |-> 0]]]
  /\ iBuffer = 0
  /\ iBufferPos = 0
  /\ iBufferTransmit = NO_TRANSMIT
  /\ ADC_Gain = 1
  /\ adcGainReg = GainVal(1)
  /\ gainIn = 1
  /\ gainRet = TRUE
  /\ txpc = "poll"
  /\ txBuf = NO_TRANSMIT
  /\ oob = FALSE
  /\ roundMask = 0
  /\ maskChanged = TRUE
  /\ preempted = FALSE
  /\ started = <<>>
  /\ stored = <<>>
  /\ nAdv = 0
  /\ txAge = 0
  /\ taken = FALSE
  /\ udpPacket = <<>>
  /\ tcCount = 0
  /\ tcCC = 0
  /\ tcCall = <<>>

\* The call ADC_StartRead()
StartReadCall ==
  LET s == ADC_StartRead(iReadInput, ADC_EnabledInputs, adcConv, adcMux)
  IN /\ iReadInput' = s.iReadInput
     /\ adcMux' = s.adcMux
     /\ adcConv' = s.adcConv
     /\ started' = IF s.start THEN Append(started, s.iReadInput) ELSE started
     /\ UNCHANGED <<ADC_EnabledInputs, ADC_buffer, iBuffer, iBufferPos,
                    iBufferTransmit, ADC_Gain, adcGainReg, gainIn, gainRet,
                    txpc, txBuf, udpPacket, tcCount, tcCC, tcCall, oob,
                    roundMask, maskChanged, preempted, stored, nAdv, txAge,
                    taken>>

NextScan == StartReadCall

SpecScan == InitScan /\ [][NextScan]_vars

-----------------------------------------------------------------------------
(* Serialisation of a frame, for every mask byte *)

\* Frame contents: consecutive cells hold consecutive samples of the pool,
\* starting at its k-th
FramePattern(k) ==
  [i \in Inputs |-> [b \in Buffers |-> [p \in Positions |->
     SamplePool[((i * RingPeriod + b * N_ADC_BUFFER_POS + p + k)
                 % Len(SamplePool)) + 1]]]]

InitTx ==
  /\ ADC_EnabledInputs \in ByteMasks
  /\ \E k \in 0 .. (Len(SamplePool) - 1) : ADC_buffer = FramePattern(k)
  /\ iBuffer = 0
  /\ iBufferPos = 0
  /\ iBufferTransmit = NO_TRANSMIT
  /\ iReadInput = NO_INPUT
  /\ ADC_Gain = 1
  /\ adcConv = 0
  /\ adcMux = 0
  /\ adcGainReg = GainVal(1)
  /\ gainIn = 1
  /\ gainRet = TRUE
  /\ txpc = "poll"
  /\ txBuf = NO_TRANSMIT
  /\ oob = FALSE
  /\ roundMask = 0
  /\ maskChanged = TRUE
  /\ preempted = FALSE
  /\ started = <<>>
  /\ stored = <<>>
  /\ nAdv = 0
  /\ txAge = 0
  /\ taken = FALSE
  /\ udpPacket = <<>>
  /\ tcCount = 0
  /\ tcCC = 0
  /\ tcCall = <<>>

\* The call ADC_UdpTransmit(UDP, iBuffer_in, IP, Port, DataType)
UdpTransmit(iBuffer_in, DataType) ==
  /\ udpPacket' = ADC_UdpTransmit(ADC_buffer, ADC_EnabledInputs, iBuffer_in,
                                  DataType)
  /\ txBuf' = iBuffer_in
  /\ UNCHANGED <<ADC_EnabledInputs, ADC_buffer, iBuffer, iBufferPos,
                 iBufferTransmit, iReadInput, ADC_Gain, adcConv, adcMux,
                 adcGainReg, gainIn, gainRet, txpc, tcCount, tcCC, tcCall, oob,
                 roundMask, maskChanged, preempted, started, stored, nAdv,
                 txAge, taken>>

TransmitCall == \E b \in Buffers, t \in DataTypes : UdpTransmit(b, t)

NextTx == TransmitCall

SpecTx == InitTx /\ [][NextTx]_vars

-----------------------------------------------------------------------------
(* Vocabulary of the properties *)

Lowest(S) == CHOOSE x \in S : \A y \in S : x <= y

\* The inputs of the cells stored since the last TC3_Handler, in order
StoredInputs == [k \in 1 .. Len(stored) |-> stored[k][1]]

StrictlyAscending(s) == \A j, k \in 1 .. Len(s) : j < k => s[j] < s[k]

\* The enabled inputs above input c
Later(c, mask) == {i \in EnabledSet(mask) : i > c}

\* The step is a run of ADC_Handler
IsConversionComplete == Len(stored') = Len(stored) + 1

\* The step is a run of TC3_Handler that updated the indexes
IsRoundAdvance == nAdv' # nAdv

\* No store of ADC_Handler fell outside ADC_buffer
NoOutOfRangeStore == oob = FALSE

-----------------------------------------------------------------------------
\* C1: with a non-empty mask that has not changed since the last TC3_Handler,
\* the inputs started since then are a prefix of the enabled inputs in
\* ascending order beginning with the lowest, the cells stored are those of
\* the started inputs but the one in flight, at the current buffer and
\* position, and once no conversion is in flight every enabled input has been
\* started and stored exactly once.
C1_RoundVisitsEnabled ==
  (roundMask # 0 /\ ~maskChanged) =>
    LET order == Ascending(EnabledSet(roundMask))
    IN /\ Len(started) >= 1
       /\ IsPrefix(started, order)
       /\ IsPrefix(StoredInputs, started)
       /\ Len(stored) = Len(started) - adcConv
       /\ \A k \in 1 .. Len(stored) :
            stored[k] = <<started[k], iBuffer, iBufferPos>>
       /\ adcConv \in {0, 1}
       /\ adcConv = 1 => iReadInput = started[Len(started)]
       /\ adcConv = 0 => started = order /\ StoredInputs = order

C1_Witness ==
  /\ roundMask = 5
  /\ ~maskChanged
  /\ adcConv = 0
  /\ started = <<0, 2>>
  /\ StoredInputs = <<0, 2>>

\* C2: iBufferPos and iBuffer count the index updates (iBufferPos is their
\* number modulo N_ADC_BUFFER_POS, iBuffer advances by one modulo
\* N_ADC_BUFFERS at every N_ADC_BUFFER_POS-th of them), and the update that
\* wraps iBufferPos sets iBufferTransmit to the buffer it leaves, while every
\* other update leaves iBufferTransmit alone.
C2_FrameAdvance ==
  /\ [](/\ iBufferPos = nAdv % N_ADC_BUFFER_POS
        /\ iBuffer = (nAdv \div N_ADC_BUFFER_POS) % N_ADC_BUFFERS)
  /\ [][IsRoundAdvance =>
          IF nAdv' % N_ADC_BUFFER_POS = 0
          THEN /\ iBufferTransmit' = iBuffer
               /\ iBuffer' = (iBuffer + 1) % N_ADC_BUFFERS
               /\ iBufferPos' = 0
          ELSE /\ iBufferTransmit' = iBufferTransmit
               /\ iBuffer' = iBuffer
               /\ iBufferPos' = iBufferPos + 1]_vars

C2_Witness ==
  /\ nAdv = N_ADC_BUFFER_POS
  /\ iBuffer = 1
  /\ iBufferPos = 0
  /\ iBufferTransmit = 0

\* C3: a run of TC3_Handler with ADC_EnabledInputs = 0 leaves iBuffer,
\* iBufferPos, iReadInput, iBufferTransmit and ADC_buffer unchanged and
\* starts no conversion.
C3_EmptyMaskNoOp ==
  [][(TC3_Handler /\ ADC_EnabledInputs = 0) =>
       /\ UNCHANGED <<iBuffer, iBufferPos, iReadInput, iBufferTransmit,
                      ADC_buffer, adcConv, adcMux>>
       /\ started' = <<>>]_vars

C3_Witness ==
  /\ roundMask = 0
  /\ ADC_EnabledInputs = 0
  /\ ~maskChanged
  /\ iBufferPos > 0
  /\ iBufferTransmit # NO_TRANSMIT
  /\ iReadInput \in Inputs
  /\ adcConv = 1

\* C4: while ADC_UdpTransmit serialises buffer txBuf and fewer than
\* (N_ADC_BUFFERS - 1) * N_ADC_BUFFER_POS index updates have followed the
\* publication of txBuf, iBuffer differs from txBuf and no ADC_Handler store
\* goes to buffer txBuf.
C4_NoWriteIntoTxFrame ==
  /\ []((txpc = "send" /\ txAge < TxWindow) => iBuffer # txBuf)
  /\ [][(txpc = "send" /\ txAge < TxWindow /\ IsConversionComplete) =>
          stored'[Len(stored')][2] # txBuf]_vars

C4_Witness ==
  /\ txpc = "send"
  /\ txAge = TxWindow - 1
  /\ Len(stored) >= 1
  /\ stored[1][2] # txBuf

\* C5 as stated: once a round is over, the inputs stored in it are the
\* inputs enabled at its TC3_Handler.
C5_Original ==
  (roundMask # 0 /\ adcConv = 0) =>
    {StoredInputs[k] : k \in 1 .. Len(stored)} = EnabledSet(roundMask)

\* C5, amended: a write of ADC_EnabledInputs leaves the conversion in flight
\* and what was stored alone, and every scan uses the mask of its moment: a
\* round starts with the lowest input enabled at its TC3_Handler and each
\* ADC_Handler goes on with the lowest input above the one just read that is
\* enabled then, or ends the round when there is none.
C5_MaskReadAtEveryScan ==
  /\ [](roundMask # 0 =>
          /\ Len(started) >= 1
          /\ started[1] = Lowest(EnabledSet(roundMask))
          /\ StrictlyAscending(started)
          /\ IsPrefix(StoredInputs, started)
          /\ Len(stored) = Len(started) - adcConv)
  /\ [][IsConversionComplete =>
          IF Later(iReadInput, ADC_EnabledInputs) = {}
          THEN started' = started /\ adcConv' = 0
          ELSE /\ started' = Append(started,
                               Lowest(Later(iReadInput, ADC_EnabledInputs)))
               /\ adcConv' = 1]_vars
  /\ [][ADC_EnabledInputs' # ADC_EnabledInputs =>
          UNCHANGED <<iReadInput, adcConv, adcMux, started, stored,
                      ADC_buffer>>]_vars

C5_Witness ==
  /\ roundMask # 0
  /\ maskChanged
  /\ adcConv = 0
  /\ \E k \in 1 .. Len(stored) : ~BitSet(roundMask, StoredInputs[k])
  /\ \E i \in EnabledSet(roundMask) :
       \A k \in 1 .. Len(stored) : StoredInputs[k] # i

\* C6 as stated: iReadInput is NO_INPUT or an input enabled in the current
\* ADC_EnabledInputs, and at most one conversion is in flight.
C6_Original ==
  /\ \/ iReadInput = NO_INPUT
     \/ iReadInput \in Inputs /\ BitSet(ADC_EnabledInputs, iReadInput)
  /\ adcConv <= 1

\* C6, amended: iReadInput is NO_INPUT or one input index, at most one
\* conversion is in flight and it is the one of input iReadInput, and
\* whenever iReadInput changes it changes to an input enabled in
\* ADC_EnabledInputs at that moment, for which a conversion is then in
\* flight.
C6_ReadingChannelSelectedEnabled ==
  /\ [](/\ iReadInput \in Inputs \cup {NO_INPUT}
        /\ adcConv \in {0, 1}
        /\ adcConv = 1 => iReadInput \in Inputs /\ adcMux = iReadInput)
  /\ [][iReadInput' # iReadInput =>
          /\ iReadInput' \in Inputs
          /\ BitSet(ADC_EnabledInputs, iReadInput')
          /\ adcConv' = 1
          /\ adcMux' = iReadInput']_vars
  /\ [][(TC3_Handler /\ adcConv = 1) => adcConv' = 1]_vars

C6_Witness ==
  /\ adcConv = 1
  /\ preempted
  /\ iReadInput \in Inputs
  /\ ~BitSet(ADC_EnabledInputs, iReadInput)
  /\ ADC_EnabledInputs # 0

\* C7: iBufferPos is in [0, N_ADC_BUFFER_POS), iBuffer in [0, N_ADC_BUFFERS),
\* and iBufferTransmit is NO_TRANSMIT or a buffer index, NO_TRANSMIT being
\* none of the buffer indexes.
C7_IndexRanges ==
  /\ iBufferPos \in Positions
  /\ iBuffer \in Buffers
  /\ iBufferTransmit \in Buffers \cup {NO_TRANSMIT}
  /\ NO_TRANSMIT \notin Buffers

C7_Witness ==
  /\ iBuffer = 0
  /\ iBufferPos = N_ADC_BUFFER_POS - 1
  /\ iBufferTransmit = N_ADC_BUFFERS - 1
  /\ txpc = "clear"
  /\ txBuf = N_ADC_BUFFERS - 2

\* C8 as stated: an ADC_Handler run that finds no enabled input above the
\* one just read sets iReadInput to NO_INPUT and leaves no conversion in
\* flight.
C8_Original ==
  [][(IsConversionComplete /\ Later(iReadInput, ADC_EnabledInputs) = {}) =>
       iReadInput' = NO_INPUT /\ adcConv' = 0]_vars

\* C8, amended: such a run leaves no conversion in flight and starts none,
\* and leaves iReadInput at the input just read.
C8_RoundEndKeepsReadInput ==
  [][(IsConversionComplete /\ Later(iReadInput, ADC_EnabledInputs) = {}) =>
       /\ iReadInput' = iReadInput
       /\ iReadInput' \in Inputs
       /\ adcConv' = 0
       /\ started' = started]_vars

C8_Witness ==
  /\ adcConv = 0
  /\ Len(stored) >= 2
  /\ iReadInput = StoredInputs[Len(stored)]
  /\ Later(iReadInput, ADC_EnabledInputs) = {}
  /\ ~maskChanged

\* C9 as stated: while a conversion is in flight, no step other than its
\* ADC_Handler changes iReadInput or starts a conversion.
C9_Original ==
  [][(adcConv = 1 /\ ~IsConversionComplete) =>
       UNCHANGED <<iReadInput, adcConv, adcMux>>]_vars

\* C9, amended: while a conversion is in flight, a step that is neither its
\* ADC_Handler nor a TC3_Handler with a non-empty mask leaves iReadInput and
\* the conversion alone; a TC3_Handler with a non-empty mask abandons it and
\* starts the conversion of the lowest enabled input.
C9_StalledUntilRoundAdvance ==
  /\ [][(adcConv = 1 /\ ~IsConversionComplete
         /\ ~(TC3_Handler /\ ADC_EnabledInputs # 0)) =>
          UNCHANGED <<iReadInput, adcConv, adcMux>>]_vars
  /\ [][(adcConv = 1 /\ TC3_Handler /\ ADC_EnabledInputs # 0) =>
          /\ iReadInput' = Lowest(EnabledSet(ADC_EnabledInputs))
          /\ adcMux' = iReadInput'
          /\ adcConv' = 1
          /\ started' = <<iReadInput'>>
          /\ stored' = <<>>]_vars

C9_Witness ==
  /\ adcConv = 1
  /\ preempted
  /\ stored = <<>>
  /\ started = <<1>>
  /\ iReadInput = 1
  /\ nAdv = RingPeriod - 1

\* C10: ADC_Gain is always one of 1, 2, 4, 8, 16 and INPUTCTRL.GAIN is its
\* setting; after ADC_setGain(v) with v one of them the call has returned
\* true and ADC_Gain is v; ADC_setGain(v) with any other v returns false and
\* leaves ADC_Gain and INPUTCTRL.GAIN as they were.
C10_GainFailsClosed ==
  /\ [](/\ ADC_Gain \in {1, 2, 4, 8, 16}
        /\ adcGainReg = GainVal(ADC_Gain)
        /\ gainIn \in {1, 2, 4, 8, 16} => gainRet /\ ADC_Gain = gainIn
        /\ gainIn \notin {1, 2, 4, 8, 16} => ~gainRet)
  /\ [][gainIn' \notin {1, 2, 4, 8, 16} =>
          ADC_Gain' = ADC_Gain /\ adcGainReg' = adcGainReg]_vars

C10_Witness ==
  /\ gainIn = 3
  /\ ~gainRet
  /\ ADC_Gain = 8
  /\ adcGainReg = GainVal(8)

-----------------------------------------------------------------------------
\* The value of a 12 bit two's complement reading
Signed12(r) == IF r < 2048 THEN r ELSE r - 4096

\* C11: for every raw 12 bit reading r in 0..4095 the sample ADC_Handler
\* stores is the sign extension of r, r below 2048 and r - 4096 from 2048
\* on, and every stored sample lies in -2048..2047.
C11_SampleSignExtended ==
  /\ [][\A raw \in Raw12 :
          ADC_Handler(raw) =>
            ADC_buffer'[iReadInput][iBuffer][iBufferPos] = Signed12(raw)]_vars
  /\ [](\A i \in Inputs, b \in Buffers, p \in Positions :
          ADC_buffer[i][b][p] \in -2048 .. 2047)

\* The most negative reading, 0x800, has been stored
C11_Witness ==
  \E i \in Inputs :
    /\ stored = <<(<<i, 0, 1>>)>>
    /\ ADC_buffer[i][0][1] = -2048

-----------------------------------------------------------------------------
\* The bits set in a mask byte, of its eight
ByteBits(mask) == {i \in 0 .. 7 : BitSet(mask, i)}

\* The k-th smallest element of S, k from 0
Nth(S, k) == CHOOSE x \in S : Cardinality({y \in S : y < x}) = k

\* The 16 bit two's complement value of a low and a high byte
Int16(lo, hi) ==
  IF lo + 256 * hi >= 32768 THEN lo + 256 * hi - 65536 ELSE lo + 256 * hi

\* The payload laid out by the wire format for the inputs chans: three
\* header bytes, then for each input of chans in ascending order its
\* N_ADC_BUFFER_POS samples, two bytes each, low byte first
LaidOut(payload, chans, DataType, iBuffer_in, mask, buffer) ==
  /\ Len(payload) = 3 + 2 * N_ADC_BUFFER_POS * Cardinality(chans)
  /\ payload[1] = DataType
  /\ payload[2] = iBuffer_in
  /\ payload[3] = mask
  /\ \A k \in 0 .. (Cardinality(chans) - 1), pos \in Positions :
       LET at == 3 + 2 * (k * N_ADC_BUFFER_POS + pos)
           v == buffer[Nth(chans, k)][iBuffer_in][pos]
       IN /\ payload[at + 1] = (IF v >= 0 THEN v ELSE v + 65536) % 256
          /\ payload[at + 2] = (IF v >= 0 THEN v ELSE v + 65536) \div 256

\* Decoding by the wire format: the samples of the k-th input of chans
Decode(payload, chans) ==
  [c \in chans |->
     [pos \in Positions |->
        LET at == 3 + 2 * (Cardinality({d \in chans : d < c})
                           * N_ADC_BUFFER_POS + pos)
        IN Int16(payload[at + 1], payload[at + 2])]]

\* C12 as stated: for every 8 bit mask, buffer index and frame content the
\* payload is the tag, the buffer index, the mask byte, then the samples of
\* each input whose bit is set in the mask byte; its length is
\* 3 + 2 * P * (number of bits set in the mask byte); decoding it by this
\* layout gives the frame's samples back.
C12_Original ==
  [][\A b \in Buffers, t \in DataTypes :
       UdpTransmit(b, t) =>
         /\ Len(udpPacket') = 3 + 2 * N_ADC_BUFFER_POS
                                 * Cardinality(ByteBits(ADC_EnabledInputs))
         /\ LaidOut(udpPacket', ByteBits(ADC_EnabledInputs), t, b,
                    ADC_EnabledInputs, ADC_buffer)]_vars

\* C12, amended: the payload is the tag, the buffer index, the whole mask
\* byte, then the samples of each input below N_ADC_INPUT whose bit is set,
\* ascending, two bytes each, low byte first; its length is
\* 3 + 2 * P * (number of bits set below N_ADC_INPUT); bits set at
\* N_ADC_INPUT or above are sent in the mask byte and carry no samples;
\* decoding over the inputs below N_ADC_INPUT gives the samples back,
\* negative ones too.
C12_PayloadServesInputs ==
  [][\A b \in Buffers, t \in DataTypes :
       UdpTransmit(b, t) =>
         /\ LaidOut(udpPacket', EnabledSet(ADC_EnabledInputs), t, b,
                    ADC_EnabledInputs, ADC_buffer)
         /\ Decode(udpPacket', EnabledSet(ADC_EnabledInputs))
              = [c \in EnabledSet(ADC_EnabledInputs) |->
                   [pos \in Positions |-> ADC_buffer[c][b][pos]]]]_vars

\* A packet for a mask with a bit at N_ADC_INPUT or above and two inputs
\* enabled below it, one of its samples negative
C12_Witness ==
  /\ udpPacket # <<>>
  /\ ADC_EnabledInputs >= 2 ^ N_ADC_INPUT
  /\ EnabledSet(ADC_EnabledInputs) = {0, 2}
  /\ \E pos \in Positions : ADC_buffer[2][txBuf][pos] < 0

-----------------------------------------------------------------------------
\* C13: from every iReadInput in {none} \cup 0..C-1 and every mask the scan
\* selects the smallest input above iReadInput (none counting as below 0,
\* no wraparound) whose bit is set; when there is one, ADC_StartRead issues
\* exactly one start request and sets iReadInput to it; when there is none
\* it issues no request and changes no state.
C13_ScanLowestAbove ==
  /\ [][StartReadCall =>
          IF Later(iReadInput, ADC_EnabledInputs) = {}
          THEN UNCHANGED vars
          ELSE /\ iReadInput' = Lowest(Later(iReadInput, ADC_EnabledInputs))
               /\ adcMux' = iReadInput'
               /\ iReadInput' > iReadInput
               /\ started' = Append(started, iReadInput')
               /\ adcConv' = 1]_vars
  /\ [](adcConv <= 1 /\ StrictlyAscending(started))

\* From input 0 or 1 the scan started input 2 and not input 0, though bit 0
\* is set
C13_Witness ==
  /\ ADC_EnabledInputs % 8 = 5
  /\ started = <<2>>
  /\ iReadInput = 2
  /\ adcConv = 1

-----------------------------------------------------------------------------
\* The buffer completed last
LastCompleted == (iBuffer + N_ADC_BUFFERS - 1) % N_ADC_BUFFERS

\* A step of TC3_Handler that completes a frame
IsFrameCompletion == IsRoundAdvance /\ iBuffer' # iBuffer

\* A step of the pipeline taking the marker
IsTxPoll == txpc = "poll" /\ txpc' = "send"

\* C14: iBufferTransmit is a single slot naming the frame completed last:
\* each completion overwrites the marker, unconsumed or not; in every
\* reachable state iBufferTransmit is none or (iBuffer - 1) mod B; so the
\* pipeline, whenever it takes the marker, is handed the frame completed
\* last and never an older one whose marker was overwritten.
C14_MarkerNamesLastFrame ==
  /\ [](iBufferTransmit \in {NO_TRANSMIT, LastCompleted})
  /\ [][IsFrameCompletion => iBufferTransmit' = iBuffer]_vars
  /\ [][IsTxPoll => txBuf' = LastCompleted]_vars

\* While the pipeline sends frame 0, frame 1 was completed and its marker,
\* never taken, overwritten by that of frame 2
C14_Witness ==
  /\ txpc = "send"
  /\ txBuf = 0
  /\ iBufferTransmit = 2
  /\ iBuffer = (2 + 1) % N_ADC_BUFFERS

-----------------------------------------------------------------------------
\* setTimerFrequency was just called on a running timer: CC[0] above 0 and
\* COUNT within 0 .. CC[0]
RunningCall == tcCall # <<>> /\ tcCall.cc > 0 /\ tcCall.count <= tcCall.cc

\* c = floor(CPU_HZ / (TIMER_PRESCALER_DIV * hz)) - 1
IsCompareOf(c, hz) ==
  /\ (c + 1) * (TIMER_PRESCALER_DIV * hz) <= CPU_HZ
  /\ (c + 2) * (TIMER_PRESCALER_DIV * hz) > CPU_HZ

\* The exact quotient q and remainder r of x * n by m, for 16 bit x and n,
\* computed in parts that stay small
MulDiv(x, n, m) ==
  LET hi == (x \div 256) * n
      lo == (hi % m) * 256 + (x % 256) * n
  IN [q |-> (hi \div m) * 256 + lo \div m, r |-> lo % m]

\* x * n / m rounded to the nearest integer, and truncated
Nearest(x, n, m) ==
  MulDiv(x, n, m).q + (IF 2 * MulDiv(x, n, m).r >= m THEN 1 ELSE 0)

Truncated(x, n, m) == MulDiv(x, n, m).q

\* C15 as stated: for every hz in 1 .. clockHz / prescaler, every
\* compare_old above 0 and every old phase in 0 .. compare_old, setFrequency
\* installs compare_new = floor(clockHz / (prescaler * hz)) - 1 and the phase
\* oldPhase * compare_new / compare_old rounded to the nearest integer, not
\* truncated; the new phase never exceeds compare_new.
C15_Original ==
  RunningCall =>
    /\ IsCompareOf(tcCC, tcCall.hz)
    /\ tcCount = Nearest(tcCall.count, tcCC, tcCall.cc)
    /\ tcCount <= tcCC

\* C15, amended: for every hz in 1 .. clockHz / prescaler, every compare_old
\* above 0 and every old phase in 0 .. compare_old, setFrequency installs
\* compare_new = floor(clockHz / (prescaler * hz)) - 1; when
\* oldPhase * compare_new fits the 32 bit long of map it installs the phase
\* oldPhase * compare_new / compare_old truncated, not rounded, which never
\* exceeds compare_new; when the product does not fit, the phase is not
\* determined.
C15_PhaseTruncated ==
  RunningCall =>
    /\ IsCompareOf(tcCC, tcCall.hz)
    /\ ~Overflows(tcCall.count, tcCC) =>
         /\ tcCount = Truncated(tcCall.count, tcCC, tcCall.cc)
         /\ tcCount <= tcCC

\* A change from 1 Hz to 2 Hz at a phase where rounding to the nearest
\* would have given the next count
C15_Witness ==
  /\ RunningCall
  /\ tcCall.hz = 2
  /\ tcCall.cc = CompareValue(1)
  /\ 2 * MulDiv(tcCall.count, tcCC, tcCall.cc).r >= tcCall.cc
  /\ tcCount = Truncated(tcCall.count, tcCC, tcCall.cc)
  /\ tcCount < Nearest(tcCall.count, tcCC, tcCall.cc)
-----------------------------------------------------------------------------
\* C16 as stated: every run of ADC_Handler finds iReadInput in 0..C-1, never
\* none, so every store into ADC_buffer has an input index in range; for
\* every interleaving, a TC3_Handler with a conversion in flight and a mask
\* whose only set bits are at C or above included.
C16_Original ==
  [][IsConversionComplete =>
       /\ iReadInput \in Inputs
       /\ oob' = FALSE]_vars

-----------------------------------------------------------------------------
\* Cell (input c, buffer b, position p) holds a sample: it was written
Written(c, b, p) == ADC_buffer[c][b][p] # 0

\* C17 as stated: under a constant non-empty mask, every round finishing
\* before the next TC3_Handler, at the moment TC3_Handler publishes
\* iBufferTransmit = b every cell of frame b at a position in 0..P-1 and an
\* enabled input has been written, for every published frame, the first
\* after startup included.
C17_Original ==
  [][IsFrameCompletion =>
       \A c \in EnabledSet(ADC_EnabledInputs), p \in Positions :
         Written(c, iBuffer, p)]_vars

-----------------------------------------------------------------------------
\* A step of the pipeline clearing the marker
IsTxClear == txpc = "clear" /\ txpc' = "poll"

\* A marker is published that the pipeline has not taken
Unsent == iBufferTransmit # NO_TRANSMIT /\ ~taken

\* C18 as stated: a published marker is lost only by being overwritten by a
\* newer one; the clear of the pipeline never discards a marker it did not
\* send, also when TC3_Handler publishes between the pipeline's read and its
\* clear; and no buffer index is transmitted twice for one publication.
C18_Original ==
  /\ [][IsTxClear => ~Unsent]_vars
  /\ [][(Unsent /\ iBufferTransmit' # iBufferTransmit)
          => IsFrameCompletion]_vars
  /\ [][IsTxPoll => Unsent]_vars

\* C18, amended: a published marker is lost by being overwritten by a newer
\* one or by the clear of the pipeline, which writes none whatever the
\* marker is: a marker that TC3_Handler publishes between the pipeline's
\* read and its clear is discarded without having been sent. No buffer
\* index is transmitted twice for one publication.
C18_ClearDiscardsAnyMarker ==
  /\ [][IsTxClear => iBufferTransmit' = NO_TRANSMIT]_vars
  /\ [][(Unsent /\ iBufferTransmit' # iBufferTransmit)
          => (IsFrameCompletion \/ IsTxClear)]_vars
  /\ [][IsTxPoll => (Unsent /\ txBuf' = iBufferTransmit /\ taken')]_vars
  /\ [](txpc # "poll" /\ Unsent => iBufferTransmit # txBuf \/ txAge > 0)

\* The pipeline has sent frame 0 and is about to clear; meanwhile frame 1
\* was published and has not been taken
C18_Witness ==
  /\ txpc = "clear"
  /\ txBuf = 0
  /\ iBufferTransmit = 1
  /\ Unsent

-----------------------------------------------------------------------------
\* C19: a run of ADC_Handler for input c with the indexes (b, p) changes
\* the one cell ADC_buffer[c][b][p], which takes the sample, and leaves
\* iBuffer, iBufferPos, iBufferTransmit, ADC_EnabledInputs and every other
\* cell as they were; so under a constant mask the cells of the inputs not
\* enabled are never written.
C19_OnlyTheCurrentCell ==
  /\ [][IsConversionComplete =>
          /\ \E raw \in FrameReadings :
               ADC_buffer'[iReadInput][iBuffer][iBufferPos] = Signed12(raw)
          /\ \A c \in Inputs, b \in Buffers, p \in Positions :
               <<c, b, p>> # <<iReadInput, iBuffer, iBufferPos>>
                 => ADC_buffer'[c][b][p] = ADC_buffer[c][b][p]
          /\ UNCHANGED <<iBuffer, iBufferPos, iBufferTransmit,
                         ADC_EnabledInputs>>]_vars
  /\ [](\A c \in Inputs \ EnabledSet(ADC_EnabledInputs),
           b \in Buffers, p \in Positions : ~Written(c, b, p))

\* With inputs 0 and 2 enabled, input 2 was just stored at buffer 1,
\* position 0; the cells of input 1 and the later cells of input 2 still
\* hold 0
C19_Witness ==
  /\ ADC_EnabledInputs = 5
  /\ stored = <<(<<0, 1, 0>>), (<<2, 1, 0>>)>>
  /\ Written(2, 1, 0)
  /\ ~Written(2, 1, 1)
  /\ \A b \in Buffers, p \in Positions : ~Written(1, b, p)

-----------------------------------------------------------------------------
\* C20: if every conversion started completes in the end and no TC3_Handler
\* intervenes, a round reaches a state with no conversion in flight after
\* at most C runs of ADC_Handler; from then until the next round advance no
\* conversion is started and no cell of ADC_buffer is written.
C20_RoundTerminates ==
  /\ (adcConv > 0) ~> (adcConv = 0)
  /\ [](Len(stored) <= N_ADC_INPUT)
  /\ [][(adcConv = 0 /\ ~IsRoundAdvance) =>
          /\ adcConv' = 0
          /\ ~IsConversionComplete
          /\ ADC_buffer' = ADC_buffer
          /\ started' \in {started, <<>>}]_vars

\* A round of C conversions, every input enabled, has ended
C20_Witness ==
  /\ adcConv = 0
  /\ Len(stored) = N_ADC_INPUT
  /\ iReadInput = N_ADC_INPUT - 1

=============================================================================
